---- MODULE Spec2Model ----
(***************************************************************************)
(* Model of the data-analyzer front-end: the root layout module            *)
(* (src/app/layout.tsx) and the default route's page (src/app/page.tsx).   *)
(*                                                                         *)
(* Strings are TLA+ strings.  A rendered element is a record               *)
(*   [tag, attrs, kids, text]                                              *)
(* where attrs is a sequence of <<name, value>> pairs in source order,     *)
(* kids the sequence of child nodes, and text the content of a text node   *)
(* (tag "#text").  An attribute value is kept as the sequence of its       *)
(* whitespace-separated tokens (a className as its class list).  React     *)
(* children are a sequence of nodes (empty for null).                      *)
(***************************************************************************)
EXTENDS Integers, Sequences, FiniteSets, TLC

VARIABLES
  pc,         \* layout.tsx's module scope: "start" (not yet evaluated),
              \* "serving" (evaluated) or "failed" (line 5 threw)
  courier,    \* the module constant courier (layout.tsx line 5)
  metadata,   \* the exported constant metadata (layout.tsx line 11)
  fontLoads,  \* how many times the font loader has returned a font
  log         \* the renders made so far, oldest first

vars == <<pc, courier, metadata, fontLoads, log>>

\* Longest sequence of renders explored.
MaxRenders == 3
\* Number of distinct class-name hashes the font loader may generate.
MaxFontHashes == 2

\* The JavaScript value undefined (a binding not yet initialised).
Undefined == "<undefined>"

----------------------------------------------------------------------------
(* Markup *)

Text(s) == [tag |-> "#text", attrs |-> <<>>, kids |-> <<>>, text |-> s]

Element(tag, attrs, kids) ==
  [tag |-> tag, attrs |-> attrs, kids |-> kids, text |-> ""]

RECURSIVE JoinWords(_)
JoinWords(ws) ==
  IF ws = <<>> THEN ""
  ELSE IF Len(ws) = 1 THEN ws[1]
  ELSE ws[1] \o " " \o JoinWords(Tail(ws))

RECURSIVE Spaces(_)
Spaces(n) == IF n = 0 THEN "" ELSE " " \o Spaces(n - 1)

\* JSXText without the trimming: every source line is kept with its
\* indentation.
JSXText_Untrimmed(lines) ==
  JoinWords([i \in 1..Len(lines) |-> Spaces(lines[i].indent) \o lines[i].text])

\* JSX text between tags, given as its source lines [indent, text] (text is
\* the line without its surrounding whitespace).  JSX trims every line,
\* drops the lines that are empty after trimming and joins the rest with
\* one space.
JSXText(lines) ==
  LET kept == SelectSeq(lines, LAMBDA l : l.text # "")
  IN JoinWords([i \in 1..Len(kept) |-> kept[i].text])

----------------------------------------------------------------------------
(* src/app/layout.tsx, module scope *)

\* CourierConfig with a third weight requested.
CourierConfig_ExtraWeight ==
  [weight |-> <<"400", "500", "700">>,
   variable |-> "--font-courier",
   subsets |-> <<"latin">>]

\* The options object passed to the font loader (layout.tsx lines 5-9).
CourierConfig ==
  [weight |-> <<"400", "700">>,
   variable |-> "--font-courier",
   subsets |-> <<"latin">>]

\* The class tokens the font loader may generate for one build.
FontHashes == 1..MaxFontHashes

\* Courier_Prime(options): the resolved font.  `variable` is the generated
\* class that defines the CSS variable named by options.variable;
\* `className` is the generated class that applies the family directly.
Courier_Prime(options, h) ==
  [family |-> "Courier Prime",
   weights |-> options.weight,
   subsets |-> options.subsets,
   cssVariable |-> options.variable,
   variable |-> "__variable_" \o ToString(h),
   className |-> "__className_" \o ToString(h)]

\* `courier` before line 5 has run.
NoFont ==
  [family |-> Undefined, weights |-> <<>>, subsets |-> <<>>,
   cssVariable |-> Undefined, variable |-> Undefined, className |-> Undefined]

\* LayoutMetadata left as the project template generates it.
LayoutMetadata_Template ==
  [title |-> "Create Next App",
   description |-> "Generated by create next app"]

\* LayoutMetadata with a full stop ending the description.
LayoutMetadata_FullStop ==
  [title |-> "Data Analyzer",
   description |-> "Powerful data analysis and visualization dashboard."]

\* The exported metadata object (layout.tsx lines 11-14).
LayoutMetadata ==
  [title |-> "Data Analyzer",
   description |-> "Powerful data analysis and visualization dashboard"]

\* A module that exports no title and no description.
NoMetadata == [title |-> Undefined, description |-> Undefined]

\* The document's metadata: the layout's export, each field replaced by
\* the routed page's export of the same field when the page has one.
ResolveMetadata(layoutMeta, pageMeta) ==
  [title |-> IF pageMeta.title # Undefined
             THEN pageMeta.title ELSE layoutMeta.title,
   description |-> IF pageMeta.description # Undefined
                   THEN pageMeta.description ELSE layoutMeta.description]

\* RootLayout wrapping its children in a container of its own.
RootLayout_Wrapped(children, font) ==
  Element("html", << <<"lang", <<"en">> >> >>,
    << Element("body",
         << <<"className", <<font.variable>> \o <<"antialiased">> >> >>,
         << Element("div", <<>>, children) >>) >>)

\* RootLayout without the lang attribute on html.
RootLayout_NoLang(children, font) ==
  Element("html", <<>>,
    << Element("body",
         << <<"className", <<font.variable>> \o <<"antialiased">> >> >>,
         children) >>)

\* RootLayout putting the font's className on the body instead of its
\* variable class.
RootLayout_ClassName(children, font) ==
  Element("html", << <<"lang", <<"en">> >> >>,
    << Element("body",
         << <<"className", <<font.className>> \o <<"antialiased">> >> >>,
         children) >>)

\* RootLayout({children}) (layout.tsx lines 16-30), with `font` the value
\* of the module constant courier.
RootLayout(children, font) ==
  Element("html", << <<"lang", <<"en">> >> >>,
    << Element("body",
         << <<"className", <<font.variable>> \o <<"antialiased">> >> >>,
         children) >>)

----------------------------------------------------------------------------
(* src/app/page.tsx *)

\* Home showing a count of the renders made so far.
Home_Counting ==
  Element("div",
    << <<"className", <<"min-h-screen", "p-8", "font-mono">> >> >>,
    << Element("main",
         << <<"className", <<"max-w-4xl", "mx-auto">> >> >>,
         << Element("h1",
              << <<"className", <<"text-4xl", "font-bold", "mb-8">> >> >>,
              << Text("Data Analyzer") >>),
            Element("p",
              << <<"className", <<"text-lg", "text-foreground/80">> >> >>,
              << Text("Welcome to your data analysis dashboard. Visit "
                      \o ToString(Len(log))) >>)
         >>)
    >>)

\* Home() (page.tsx lines 1-12).
Home ==
  Element("div",
    << <<"className", <<"min-h-screen", "p-8", "font-mono">> >> >>,
    << Element("main",
         << <<"className", <<"max-w-4xl", "mx-auto">> >> >>,
         << Element("h1",
              << <<"className", <<"text-4xl", "font-bold", "mb-8">> >> >>,
              << Text(JSXText(<< [indent |-> 0, text |-> "Data Analyzer"] >>)) >>),
            Element("p",
              << <<"className", <<"text-lg", "text-foreground/80">> >> >>,
              << Text(JSXText(<<
                   [indent |-> 0, text |-> ""],
                   [indent |-> 10,
                    text |-> "Welcome to your data analysis dashboard."],
                   [indent |-> 8, text |-> ""] >>)) >>)
         >>)
    >>)

\* What the module page.tsx exports: the default component and no metadata.
HomePage == [children |-> <<Home>>, metadata |-> NoMetadata]

----------------------------------------------------------------------------
(* Inputs *)

\* A view other than Home, with a heading and a paragraph of its own.
OtherView ==
  Element("section", <<>>,
    << Element("h1", <<>>, << Text("Reports") >>),
       Element("p", <<>>, << Text("No reports yet.") >>) >>)

\* Nested content values handed to RootLayout: nothing, an empty
\* container, the Home view, another view, and two sibling nodes.
NestedContents ==
  { <<>>,
    << Element("div", <<>>, <<>>) >>,
    << Home >>,
    << OtherView >>,
    << Text("loading"), Element("div", <<>>, <<>>) >> }

\* Metadata exports of a routed page: none (as page.tsx), or an override
\* of the title.
PageMetadatas == { NoMetadata, [title |-> "Reports", description |-> Undefined] }

\* The views a route may resolve to.
Pages == { [children |-> c, metadata |-> m] : c \in NestedContents, m \in PageMetadatas }

----------------------------------------------------------------------------
(* State machine *)

\* One entry of the render log: which render it was, the nested content
\* and page metadata it was given, the markup it produced, and the
\* resolved document metadata, and the module-scope metadata and font the
\* render read (NoMetadata and NoFont for a render that reads neither).
Rendered(kind, page, out, meta, layoutMeta, font) ==
  [kind |-> kind, page |-> page, out |-> out, meta |-> meta,
   layoutMeta |-> layoutMeta, font |-> font]

Init ==
  /\ pc = "start"
  /\ courier = NoFont
  /\ metadata = NoMetadata
  /\ fontLoads = 0
  /\ log = <<>>

\* Evaluation of layout.tsx's module scope (lines 5-14) when the font
\* loader returns: courier and metadata are bound, the layout is served.
LayoutModuleLoads(h) ==
  /\ pc = "start"
  /\ courier' = Courier_Prime(CourierConfig, h)
  /\ fontLoads' = fontLoads + 1
  /\ metadata' = LayoutMetadata
  /\ pc' = "serving"
  /\ UNCHANGED log

\* LayoutModuleFails with the failure swallowed: the layout is served
\* although no font was resolved.
LayoutModuleFails_Fallback ==
  /\ pc = "start"
  /\ pc' = "serving"
  /\ metadata' = LayoutMetadata
  /\ UNCHANGED <<courier, fontLoads, log>>

\* The font loader call on line 5 throws: evaluation of the module stops
\* there, nothing below it is bound and nothing is exported.
LayoutModuleFails ==
  /\ pc = "start"
  /\ pc' = "failed"
  /\ UNCHANGED <<courier, metadata, fontLoads, log>>

\* A document render: RootLayout is called with the routed page's output
\* as children, and the head takes the resolved metadata.
RenderDocument(kind, page) ==
  Rendered(kind, page,
           << RootLayout(page.children, courier) >>,
           ResolveMetadata(metadata, page.metadata),
           metadata, courier)

\* RenderDefaultRoute calling the font loader again on every render.
RenderDefaultRoute_Reloading ==
  /\ pc = "serving"
  /\ Len(log) < MaxRenders
  /\ \E h \in FontHashes :
       /\ courier' = Courier_Prime(CourierConfig, h)
       /\ log' = Append(log,
            Rendered("default", HomePage,
                     << RootLayout(HomePage.children, courier') >>,
                     ResolveMetadata(metadata, HomePage.metadata),
                     metadata, courier'))
  /\ fontLoads' = fontLoads + 1
  /\ UNCHANGED <<pc, metadata>>

\* A request for the default route "/": app/page.tsx inside app/layout.tsx.
RenderDefaultRoute ==
  /\ pc = "serving"
  /\ Len(log) < MaxRenders
  /\ log' = Append(log, RenderDocument("default", HomePage))
  /\ UNCHANGED <<pc, courier, metadata, fontLoads>>

\* RootLayout rendered around any other view.
RenderLayout(page) ==
  /\ pc = "serving"
  /\ Len(log) < MaxRenders
  /\ log' = Append(log, RenderDocument("layout", page))
  /\ UNCHANGED <<pc, courier, metadata, fontLoads>>

\* Home rendered on its own.  page.tsx imports nothing from layout.tsx:
\* Home can be called before the layout module is evaluated and after its
\* evaluation failed, and it reads neither courier nor metadata.
RenderHome ==
  /\ Len(log) < MaxRenders
  /\ log' = Append(log,
       Rendered("home", [children |-> <<>>, metadata |-> NoMetadata],
                << Home >>, NoMetadata, NoMetadata, NoFont))
  /\ UNCHANGED <<pc, courier, metadata, fontLoads>>

Next ==
  \/ \E h \in FontHashes : LayoutModuleLoads(h)
  \/ LayoutModuleFails
  \/ RenderDefaultRoute
  \/ \E page \in Pages : RenderLayout(page)
  \/ RenderHome

Spec == Init /\ [][Next]_vars

----------------------------------------------------------------------------
(* Observations on rendered markup *)

\* The value of attribute `name` of a node (<<>> when it has none).
Attr(node, name) ==
  LET hits == SelectSeq(node.attrs, LAMBDA a : a[1] = name)
  IN IF hits = <<>> THEN <<>> ELSE hits[1][2]

\* All elements with the given tag among `nodes` and their descendants,
\* in document order.
RECURSIVE ElementsByTag(_, _)
ElementsByTag(nodes, tag) ==
  IF nodes = <<>> THEN <<>>
  ELSE LET n == Head(nodes)
       IN (IF n.tag = tag THEN <<n>> ELSE <<>>)
          \o ElementsByTag(n.kids, tag)
          \o ElementsByTag(Tail(nodes), tag)

\* The text nodes' contents among `nodes` and their descendants, in
\* document order.
RECURSIVE Texts(_)
Texts(nodes) ==
  IF nodes = <<>> THEN <<>>
  ELSE LET n == Head(nodes)
       IN (IF n.tag = "#text" THEN <<n.text>> ELSE <<>>)
          \o Texts(n.kids)
          \o Texts(Tail(nodes))

\* The body element of a rendered document.
BodyOf(out) == ElementsByTag(out, "body")[1]

\* The log entries that are documents (RootLayout was rendered).
DocumentIndices == { i \in 1..Len(log) : log[i].kind \in {"default", "layout"} }

----------------------------------------------------------------------------
(* Claims *)

\* C1: every render of the default route yields a document with exactly
\* one h1, whose text is "Data Analyzer", exactly one p, whose text is
\* "Welcome to your data analysis dashboard.", and no other text in the
\* body.
C1_DefaultRouteContent ==
  \A i \in 1..Len(log) :
    log[i].kind = "default" =>
      LET h1s == ElementsByTag(log[i].out, "h1")
          ps == ElementsByTag(log[i].out, "p")
      IN /\ Len(h1s) = 1
         /\ Texts(h1s) = << "Data Analyzer" >>
         /\ Len(ps) = 1
         /\ Texts(ps) = << "Welcome to your data analysis dashboard." >>
         /\ Texts(<< BodyOf(log[i].out) >>)
              = << "Data Analyzer", "Welcome to your data analysis dashboard." >>
         /\ Texts(log[i].out) = Texts(<< BodyOf(log[i].out) >>)

\* The default route has been rendered after another render.
C1_Witness ==
  \E i \in 2..Len(log) : log[i].kind = "default"

\* C2: the content of the rendered body is exactly the nested content
\* given to RootLayout: nothing added, removed, reordered or wrapped.
C2_ChildrenUnmodified ==
  \A i \in DocumentIndices :
    /\ Len(ElementsByTag(log[i].out, "body")) >= 1
    /\ BodyOf(log[i].out).kids = log[i].page.children

\* RootLayout has rendered an empty container and a view other than Home.
C2_Witness ==
  /\ \E i \in DocumentIndices :
       log[i].page.children = << Element("div", <<>>, <<>>) >>
  /\ \E i \in DocumentIndices : log[i].page.children = << OtherView >>

\* C3: in every document RootLayout produces the root element is html and
\* its lang attribute is "en".
C3_LangIsEn ==
  \A i \in DocumentIndices :
    /\ Len(log[i].out) = 1
    /\ log[i].out[1].tag = "html"
    /\ Attr(log[i].out[1], "lang") = << "en" >>

\* Documents of the default route and of another view have been rendered.
C3_Witness ==
  /\ \E i \in DocumentIndices : log[i].kind = "default"
  /\ \E i \in DocumentIndices :
       log[i].kind = "layout" /\ log[i].page.children = << OtherView >>

\* C4: on every route whose page overrides neither field, the document's
\* title is "Data Analyzer" and its description is "Powerful data analysis
\* and visualization dashboard"; Home's module defines no metadata, so the
\* default route is such a route.
C4_DocumentMetadata ==
  /\ HomePage.metadata = NoMetadata
  /\ \A i \in DocumentIndices :
       /\ log[i].kind = "default" => log[i].page.metadata = NoMetadata
       /\ log[i].page.metadata = NoMetadata =>
            /\ log[i].meta.title = "Data Analyzer"
            /\ log[i].meta.description
                 = "Powerful data analysis and visualization dashboard"

\* The default route has been rendered, and so has a route that overrides
\* the title.
C4_Witness ==
  /\ \E i \in DocumentIndices : log[i].kind = "default"
  /\ \E i \in DocumentIndices :
       /\ log[i].page.metadata.title # Undefined
       /\ log[i].meta.title # "Data Analyzer"

\* C5 as stated: once the layout module is loaded, the exported title is
\* "Data Analyzer" and the exported description is "Powerful data analysis
\* and visualization dashboard." with its final full stop.
C5_Original ==
  pc = "serving" =>
    /\ metadata.title = "Data Analyzer"
    /\ metadata.description
         = "Powerful data analysis and visualization dashboard."

\* C5 amended: once the layout module is loaded, the exported title is
\* "Data Analyzer" and the exported description is "Powerful data analysis
\* and visualization dashboard", without a final full stop.
C5_ExportedMetadata ==
  pc = "serving" =>
    /\ metadata.title = "Data Analyzer"
    /\ metadata.description
         = "Powerful data analysis and visualization dashboard"
    /\ metadata.description \o "."
         = "Powerful data analysis and visualization dashboard."
    /\ DOMAIN metadata = {"title", "description"}

\* The layout module is loaded and a document has been rendered from it.
C5_Witness ==
  /\ pc = "serving"
  /\ DocumentIndices # {}

\* The log entries that are renders of Home on its own.
HomeIndices == { i \in 1..Len(log) : log[i].kind = "home" }

\* C6: every render of Home produces the same output, whatever was
\* rendered before it and whatever nested content RootLayout was given;
\* the Home view inside a default-route document is that same output.
C6_HomeConstant ==
  /\ \A i, j \in HomeIndices : log[i].out = log[j].out
  /\ \A i \in HomeIndices : \A j \in 1..Len(log) :
       log[j].kind = "default" => BodyOf(log[j].out).kids = log[i].out

\* Home was rendered, then RootLayout around some non-empty content other
\* than Home, then Home again.
C6_Witness ==
  \E i, j, k \in 1..Len(log) :
    /\ i < j /\ j < k
    /\ log[i].kind = "home" /\ log[k].kind = "home"
    /\ log[j].kind = "layout"
    /\ log[j].page.children = << OtherView >>

\* C7: in every document, the body's class list is exactly the class of
\* the resolved font that exposes --font-courier, followed by
\* "antialiased".
C7_BodyClassList ==
  \A i \in DocumentIndices :
    LET classes == Attr(BodyOf(log[i].out), "className")
    IN /\ classes = << courier.variable, "antialiased" >>
       /\ courier.variable # Undefined
       /\ courier.variable # courier.className
       /\ courier.cssVariable = "--font-courier"
       /\ Len(BodyOf(log[i].out).attrs) = 1

\* Documents with empty and with non-empty nested content have been
\* rendered.
C7_Witness ==
  /\ \E i \in DocumentIndices : log[i].page.children = <<>>
  /\ \E i \in DocumentIndices : log[i].page.children = << Home >>

\* C8: the one font the layout loads is Courier Prime with exactly the
\* weights 400 and 700 and the one subset latin, bound to --font-courier;
\* no render, of the layout or of Home, loads another, and Home reads no
\* font at all.
C8_SingleFont ==
  /\ fontLoads <= 1
  /\ pc = "serving" =>
       /\ fontLoads = 1
       /\ courier.family = "Courier Prime"
       /\ courier.weights = << "400", "700" >>
       /\ courier.subsets = << "latin" >>
       /\ courier.cssVariable = "--font-courier"
  /\ pc # "serving" => fontLoads = 0 /\ courier = NoFont
  /\ \A i \in DocumentIndices : log[i].font = courier
  /\ \A i \in HomeIndices : log[i].font = NoFont

\* The font is loaded and both Home and a document have been rendered.
C8_Witness ==
  /\ pc = "serving"
  /\ HomeIndices # {}
  /\ DocumentIndices # {}

\* Some render of a document (RootLayout around a page) is possible.
CanRenderDocument ==
  ENABLED (RenderDefaultRoute \/ \E page \in Pages : RenderLayout(page))

\* C9: a failed font resolution at start is fatal: the process stays
\* failed and never produces a document; every document there is was made
\* after the layout module loaded, with the resolved font on its body; and
\* once the layout module has loaded, every render is possible (up to the
\* explored number of renders).
C9_FontFailureFatal ==
  /\ [](pc = "failed" =>
          DocumentIndices = {} /\ courier = NoFont /\ ~CanRenderDocument)
  /\ [][pc = "failed" => pc' = "failed"]_vars
  /\ [](\A i \in DocumentIndices :
          /\ pc = "serving"
          /\ log[i].font # NoFont
          /\ log[i].font.variable # Undefined
          /\ log[i].font.family = "Courier Prime"
          /\ Attr(BodyOf(log[i].out), "className")[1] = log[i].font.variable)
  /\ [](pc = "serving" /\ Len(log) < MaxRenders =>
          /\ ENABLED RenderDefaultRoute
          /\ \A page \in Pages : ENABLED RenderLayout(page)
          /\ ENABLED RenderHome)

\* Font resolution has failed and Home has been rendered on its own since
\* the process started, yet there is no document.
C9_Witness ==
  /\ pc = "failed"
  /\ HomeIndices # {}

\* C10: the font is resolved exactly once, before the first render of a
\* route, and never again; no render, of RootLayout or of Home, changes
\* the metadata record or the font, and every document render reads the
\* same metadata and font as the first.
C10_ResolvedOnce ==
  /\ [](fontLoads <= 1 /\ (DocumentIndices # {} => fontLoads = 1))
  /\ [][fontLoads' # fontLoads =>
          /\ fontLoads = 0
          /\ \A i \in 1..Len(log) : log[i].kind = "home"
          /\ log' = log]_vars
  /\ [][log' # log => UNCHANGED <<metadata, courier, fontLoads>>]_vars
  /\ [](\A i, j \in DocumentIndices :
          /\ log[i].font = log[j].font
          /\ log[i].layoutMeta = log[j].layoutMeta
          /\ log[i].font = courier
          /\ log[i].layoutMeta = metadata
          /\ log[i].layoutMeta # NoMetadata)

\* Home was rendered first, and then the default route and another view.
C10_Witness ==
  /\ Len(log) >= 3
  /\ log[1].kind = "home"
  /\ \E i \in 1..Len(log) : log[i].kind = "default"
  /\ \E i \in 1..Len(log) : log[i].kind = "layout"

====
